---- MODULE Spec2Model ----
(***************************************************************************)
(* Model of x3-dng-to-jpg.py: the DNG -> sRGB JPEG colour/tone pipeline.   *)
(*                                                                         *)
(* Floating-point samples are modelled as fixed-point decimals: the        *)
(* integer n stands for the value n / Scale.  Products and quotients       *)
(* round toward minus infinity to the next multiple of 1 / Scale.          *)
(* An image is a sequence of pixels, a pixel a triple <<r, g, b>>.         *)
(***************************************************************************)
EXTENDS Integers, Sequences, FiniteSets, TLC

VARIABLES
    \* apply_tone_mapping_improved called on one sample
    t_method, t_x, t_exposure, t_out, t_pc,
    \* calculate_auto_exposure called on one file's tags and preview
    e_tags, e_thumb, e_target, e_base, e_final, e_pc,
    \* load_dng_metadata, then iterative_white_balance, one loop pass a step
    w_camera_wb, w_wb_gains, w_initial_wb, w_max_iter, w_image, w_image0,
    w_result, w_gains, w_iteration, w_applied, w_pc,
    \* convert_dng_to_srgb on one file, one numbered step of it a step
    raw, cfg, pc, error, stages, metadata, exposure, rgb_float, rgb_mapped,
    rgb_gamma, rgb_sharp, rgb_8bit,
    \* batch_convert over one directory
    b_dir, b_kwargs, dng_files, b_i, b_attempted, b_pc

toneVars == <<t_method, t_x, t_exposure, t_out, t_pc>>
expVars == <<e_tags, e_thumb, e_target, e_base, e_final, e_pc>>
wbVars ==
    <<w_camera_wb, w_wb_gains, w_initial_wb, w_max_iter, w_image, w_image0,
      w_result, w_gains, w_iteration, w_applied, w_pc>>
pipeVars ==
    <<raw, cfg, pc, error, stages, metadata, exposure, rgb_float, rgb_mapped,
      rgb_gamma, rgb_sharp, rgb_8bit>>
batchVars == <<b_dir, b_kwargs, dng_files, b_i, b_attempted, b_pc>>
vars == <<toneVars, expVars, wbVars, pipeVars, batchVars>>

---------------------------------------------------------------------------
(* Fixed-point arithmetic standing for the float arithmetic of the code.   *)
(* Products and quotients are exact to the last digit kept (rounded toward *)
(* minus infinity); they are computed in parts, so that no intermediate    *)
(* value leaves the 32-bit integers of the model checker.  Operands stay   *)
(* below 1000.0 in magnitude, divisors are positive and below 200.0.       *)

\* 1.0 in fixed point: six decimal digits are kept of every float.
Scale == 1000000

\* a * b
Mul(a, b) ==
    LET a1 == a \div 1000  a0 == a % 1000
        b1 == b \div 1000  b0 == b % 1000
    IN  a1 * b1 + (a1 * b0 + a0 * b1 + (a0 * b0) \div 1000) \div 1000

\* The next n decimal digits of r / b after the quotient q, for 0 <= r < b.
RECURSIVE LongDiv(_, _, _, _)
LongDiv(q, r, b, n) ==
    IF n = 0 THEN q
    ELSE LongDiv(10 * q + (10 * r) \div b, (10 * r) % b, b, n - 1)

\* a / b, for b > 0
Div(a, b) == LongDiv(a \div b, a % b, b, 6)

Min2(a, b) == IF a <= b THEN a ELSE b
Max2(a, b) == IF a >= b THEN a ELSE b

\* np.clip(x, lo, hi)
Clip(x, lo, hi) == Max2(lo, Min2(x, hi))

\* The integer square root of n >= 0, found between lo and hi by bisection.
RECURSIVE ISqrt(_, _, _)
ISqrt(n, lo, hi) ==
    IF lo >= hi THEN lo
    ELSE LET mid == (lo + hi + 1) \div 2
         IN  IF mid * mid <= n THEN ISqrt(n, mid, hi) ELSE ISqrt(n, lo, mid - 1)

\* The three further decimal digits d of a root: the largest d between lo
\* and hi with (1000 * s + d)^2 <= 1000000 * (s * s + t), by bisection.
RECURSIVE RootDigits(_, _, _, _)
RootDigits(s, t, lo, hi) ==
    IF lo >= hi THEN lo
    ELSE LET mid == (lo + hi + 1) \div 2
         IN  IF 2 * s * mid + (mid * mid + 999) \div 1000 <= 1000 * t
             THEN RootDigits(s, t, mid, hi)
             ELSE RootDigits(s, t, lo, mid - 1)

\* The square root of a fixed-point value x >= 0: the largest r with
\* r * r <= x * Scale, as 1000 * s + d with s the integer root of x.
FSqrt(x) ==
    LET s == ISqrt(x, 0, 46340)
    IN  1000 * s + RootDigits(s, x - s * s, 0, 999)

\* x ** k for a natural number k.
RECURSIVE IntPow(_, _)
IntPow(x, k) == IF k = 0 THEN Scale ELSE Mul(x, IntPow(x, k - 1))

\* x ** (f / Scale) for a fraction 0 <= f < Scale, to k binary digits of the
\* exponent: the product of the 2^i-th roots of x at the digits that are 1.
RECURSIVE PowFrac(_, _, _, _)
PowFrac(root, f, k, acc) ==
    IF k = 0 \/ f = 0 THEN acc
    ELSE IF root = 0 \/ acc = 0 THEN 0
    ELSE LET r == FSqrt(root)
         IN  IF 2 * f >= Scale
             THEN PowFrac(r, 2 * f - Scale, k - 1, Mul(acc, r))
             ELSE PowFrac(r, 2 * f, k - 1, acc)

\* np.power(x, e), pow(x, e) and x ** e for x >= 0: e is a fixed-point
\* exponent, of which twenty binary digits are used.
Pow(x, e) ==
    IF e >= 0
    THEN PowFrac(x, e % Scale, 20, IntPow(x, e \div Scale))
    ELSE Div(Scale, PowFrac(x, (-e) % Scale, 20, IntPow(x, (-e) \div Scale)))

---------------------------------------------------------------------------
(* apply_tone_mapping_improved, lines 275-373, on one sample.              *)

KnownMethods ==
    {"exposure", "aces", "aces_approx", "uncharted2", "hable",
     "reinhard", "reinhard_extended", "lottes"}

\* lines 294-300
aces_fitted(x) ==
    LET a == 2510000  b == 30000  c == 2430000  d == 590000  e == 140000
    IN  Clip(Div(Mul(x, Mul(a, x) + b), Mul(x, Mul(c, x) + d) + e), 0, Scale)

\* lines 306-313: the clip is the caller's (line 315)
aces_approx(x0) ==
    LET x == Mul(x0, 600000)
        a == 2510000  b == 30000  c == 2430000  d == 590000  e == 140000
    IN  Div(Mul(x, Mul(a, x) + b), Mul(x, Mul(c, x) + d) + e)

\* The filmic curve shared by lines 322 and 337.
FilmicCurve(x, A, B, C, D, E, F) ==
    Div(Mul(x, Mul(A, x) + Mul(C, B)) + Mul(D, E),
        Mul(x, Mul(A, x) + B) + Mul(D, F)) - Div(E, F)

\* lines 320-322
uncharted2_tonemap(x) == FilmicCurve(x, 220000, 300000, 100000, 200000, 10000, 300000)

\* lines 330-337
hable_tonemap(x) == FilmicCurve(x, 150000, 500000, 100000, 200000, 20000, 300000)

\* lines 356-368
lottes_tonemap(x) ==
    LET a == 1600000  d == 977000  hdrMax == 8000000  midIn == 180000  midOut == 267000
        ad == Mul(a, d)
        den == Mul(Pow(hdrMax, ad) - Pow(midIn, ad), midOut)
        b == Div(Mul(Pow(hdrMax, a), midOut) - Pow(midIn, a), den)
        c == Div(Mul(Pow(hdrMax, ad), Pow(midIn, a))
                 - Mul(Mul(Pow(hdrMax, a), Pow(midIn, ad)), midOut), den)
    IN  Div(Pow(x, a), Mul(Pow(x, ad), b) + c)

\* The method's curve applied to one exposure-scaled sample, lines 287-370.
ToneCurve(img, method) ==
    CASE method = "exposure" -> Pow(Clip(img, 0, Scale), Div(Scale, 2200000))
      [] method = "aces" -> aces_fitted(img)
      [] method = "aces_approx" -> Clip(aces_approx(img), 0, Scale)
      [] method = "uncharted2" ->
            Div(uncharted2_tonemap(Mul(img, 2000000)), uncharted2_tonemap(11200000))
      [] method = "hable" ->
            Div(hable_tonemap(Mul(img, 2000000)), hable_tonemap(11200000))
      [] method = "reinhard" -> Div(img, Scale + img)
      [] method = "reinhard_extended" ->
            LET L_white == 4000000
            IN  Div(Mul(img, Scale + Div(img, Mul(L_white, L_white))), Scale + img)
      [] method = "lottes" -> Clip(lottes_tonemap(img), 0, Scale)

\* One sample through apply_tone_mapping_improved (line 285, then the curve).
ToneMapSample(x, method, exposure_factor) ==
    ToneCurve(Mul(x, exposure_factor), method)

\* The whole image: numpy applies the curve elementwise.
apply_tone_mapping_improved(image, method, exposure_factor) ==
    [p \in 1..Len(image) |->
        [ch \in 1..3 |-> ToneMapSample(image[p][ch], method, exposure_factor)]]

---------------------------------------------------------------------------
(* SpecTone: apply_tone_mapping_improved on every sample, method and       *)
(* exposure of a grid.                                                     *)

\* Linear samples: rgb.astype(float32) / 65535 lies in [0, 1].
LinearGrid == {0, 1000, 50000, 180000, 250000, 500000, 750000, 1000000}

\* Exposure factors: calculate_auto_exposure returns values of [0.3, 5.0];
\* the command line recommends 1.5 - 3.0 for --exposure.
ExposureGrid == {300000, 1000000, 1500000, 2500000, 3000000, 5000000}

ToneStart ==
    /\ t_method \in KnownMethods \cup {"filmic"}
    /\ t_x \in LinearGrid
    /\ t_exposure \in ExposureGrid
    /\ t_out = 0
    /\ t_pc = "call"

ToneMap ==
    /\ t_pc = "call"
    /\ t_method \in KnownMethods
    /\ t_out' = ToneMapSample(t_x, t_method, t_exposure)
    /\ t_pc' = "returned"
    /\ UNCHANGED <<t_method, t_x, t_exposure>>
    /\ UNCHANGED <<expVars, wbVars, pipeVars, batchVars>>

\* line 373: an unknown method name raises ValueError
ToneMapUnknown ==
    /\ t_pc = "call"
    /\ t_method \notin KnownMethods
    /\ t_pc' = "ValueError"
    /\ UNCHANGED <<t_method, t_x, t_exposure, t_out>>
    /\ UNCHANGED <<expVars, wbVars, pipeVars, batchVars>>

ToneNext == ToneMap \/ ToneMapUnknown

---------------------------------------------------------------------------
(* calculate_auto_exposure, lines 147-272.                                 *)

\* An EXIF tag as exifread prints it: the text "num" when den = 1, the text
\* "num/den" otherwise; or no tag under that key.
Tag(n, d) == [present |-> TRUE, num |-> n, den |-> d]
NoTag == [present |-> FALSE, num |-> 0, den |-> 1]

\* A value of the try block: None, or a float (fixed-point; the ISO, which
\* only divides 100.0, is kept as the whole number its tag prints).
None == [known |-> FALSE, v |-> 0]
Some(x) == [known |-> TRUE, v |-> x]

\* lines 177-181 (and 187-191, 197-201): float(num) / float(denom) when the
\* text holds a "/", float(text) otherwise.  "n/0" raises ZeroDivisionError.
RatioRaises(tag) == tag.present /\ tag.den = 0
RatioValue(tag) == (tag.num * Scale) \div tag.den

\* lines 167-171: the ISO under its first key, else under its second.
IsoTag(tags) ==
    IF tags.iso_exif.present THEN tags.iso_exif ELSE tags.iso_image

\* lines 161-214: the try block.  Any exception in it leaves every field
\* at its default (lines 209-214).
ReadExif(tags) ==
    IF \/ RatioRaises(tags.exposure_time)
       \/ RatioRaises(tags.fnumber)
       \/ RatioRaises(tags.exposure_bias)
    THEN [iso |-> None, exp_time |-> None, aperture |-> None, ev_compensation |-> 0]
    ELSE [iso |-> IF IsoTag(tags).present
                  THEN Some(IsoTag(tags).num) ELSE None,
          exp_time |-> IF tags.exposure_time.present
                       THEN Some(RatioValue(tags.exposure_time)) ELSE None,
          aperture |-> IF tags.fnumber.present
                       THEN Some(RatioValue(tags.fnumber)) ELSE None,
          ev_compensation |-> IF tags.exposure_bias.present
                              THEN RatioValue(tags.exposure_bias) ELSE 0]

\* line 222: 100.0 / iso on Python floats raises ZeroDivisionError at iso = 0;
\* the statement stands outside the try block.
BaseExposureRaises(exif) == exif.iso.known /\ exif.iso.v = 0

\* lines 217-229
BaseExposure(exif) ==
    LET iso_exposure == IF exif.iso.known THEN (100 * Scale) \div exif.iso.v ELSE Scale
    IN  IF exif.ev_compensation # 0
        THEN Mul(iso_exposure, Pow(2 * Scale, exif.ev_compensation))
        ELSE iso_exposure

\* line 245: Rec. 709 luminance of one pixel
Luminance(px) == Mul(212600, px[1]) + Mul(715200, px[2]) + Mul(72200, px[3])

RECURSIVE SeqSum(_)
SeqSum(s) == IF s = <<>> THEN 0 ELSE Head(s) + SeqSum(Tail(s))

\* lines 248-251: the sorted luminances without their lowest and highest 5 %
MidRange(thumb) ==
    LET sorted_lum == SortSeq([i \in 1..Len(thumb) |-> Luminance(thumb[i])],
                              LAMBDA a, b: a < b)
        lower_idx == (Len(sorted_lum) * 5) \div 100
        upper_idx == (Len(sorted_lum) * 95) \div 100
    IN  SubSeq(sorted_lum, lower_idx + 1, upper_idx)

\* lines 254-263.  The mean of an empty mid range is NaN, and NaN > 0 is
\* False: the compensation is then 1.0, as for a black preview.
HistogramCompensation(thumb, target_brightness) ==
    LET mid_range == MidRange(thumb)
    IN  IF Len(mid_range) > 0 /\ SeqSum(mid_range) \div Len(mid_range) > 0
        THEN Div(target_brightness, SeqSum(mid_range) \div Len(mid_range))
        ELSE Scale

\* lines 265-272: the value returned when line 222 does not raise
calculate_auto_exposure(tags, thumb, target_brightness) ==
    Clip(Mul(BaseExposure(ReadExif(tags)),
             HistogramCompensation(thumb, target_brightness)), 300000, 5000000)

---------------------------------------------------------------------------
(* Pixels and images the specifications draw from.                         *)

Black == <<0, 0, 0>>
Shadow == <<20000, 30000, 10000>>
Gray18 == <<180000, 180000, 180000>>
Gray50 == <<500000, 500000, 500000>>
Warm == <<600000, 400000, 200000>>
Cool == <<200000, 400000, 700000>>
White == <<1000000, 1000000, 1000000>>

---------------------------------------------------------------------------
(* SpecExposure: calculate_auto_exposure on the tags, preview and target   *)
(* of a grid.                                                              *)

IsoExifTags == {NoTag, Tag(0, 1), Tag(100, 1), Tag(400, 1)}
IsoImageTags == {NoTag, Tag(200, 1)}
ExposureTimeTags == {NoTag, Tag(1, 100), Tag(0, 0)}
FNumberTags == {NoTag, Tag(28, 10)}
ExposureBiasTags == {NoTag, Tag(0, 1), Tag(1, 1), Tag(-2, 1), Tag(1, 3)}

TagSets ==
    [iso_exif : IsoExifTags, iso_image : IsoImageTags,
     exposure_time : ExposureTimeTags, fnumber : FNumberTags,
     exposure_bias : ExposureBiasTags]

\* Previews: uniform 18 % gray, black, a single pixel (its mid range is
\* empty), a dark and a bright scene.
Thumbs ==
    {<<Gray18, Gray18, Gray18, Gray18>>, <<Black, Black, Black, Black>>,
     <<White>>, <<Black, Shadow, Shadow, Gray18>>, <<Warm, Cool, White, White>>}

TargetBrightnesses == {180000, 500000}

ExpStart ==
    /\ e_tags \in TagSets
    /\ e_thumb \in Thumbs
    /\ e_target \in TargetBrightnesses
    /\ e_base = 0
    /\ e_final = 0
    /\ e_pc = "call"

AutoExposureReturns ==
    /\ e_pc = "call"
    /\ ~BaseExposureRaises(ReadExif(e_tags))
    /\ e_base' = BaseExposure(ReadExif(e_tags))
    /\ e_final' = calculate_auto_exposure(e_tags, e_thumb, e_target)
    /\ e_pc' = "returned"
    /\ UNCHANGED <<e_tags, e_thumb, e_target>>
    /\ UNCHANGED <<toneVars, wbVars, pipeVars, batchVars>>

AutoExposureRaises ==
    /\ e_pc = "call"
    /\ BaseExposureRaises(ReadExif(e_tags))
    /\ e_pc' = "ZeroDivisionError"
    /\ UNCHANGED <<e_tags, e_thumb, e_target, e_base, e_final>>
    /\ UNCHANGED <<toneVars, wbVars, pipeVars, batchVars>>

ExpNext == AutoExposureReturns \/ AutoExposureRaises

---------------------------------------------------------------------------
(* load_dng_metadata, lines 20-46.                                         *)

\* A variant of lines 37-44 that leaves out the division by the green gain
\* of line 44; the property of the green gain must tell it from the code.
StaticGainsUnnormalised(wb) ==
    <<Div(Scale, wb[1]), Div(Scale, wb[2]), Div(Scale, wb[3])>>

\* lines 37-44: the gains of the camera's coefficients, green the reference
StaticGains(wb) ==
    LET r_gain == Div(Scale, wb[1])
        g_gain == Div(Scale, wb[2])
        b_gain == Div(Scale, wb[3])
    IN  <<Div(r_gain, g_gain), Scale, Div(b_gain, g_gain)>>

\* The metadata record.  Its key 'wb_gains' is set only under the test of
\* line 38; has_wb_gains tells whether the key exists.
load_dng_metadata(camera_wb) ==
    IF Len(camera_wb) >= 3
    THEN [camera_wb |-> camera_wb, has_wb_gains |-> TRUE,
          wb_gains |-> StaticGains(camera_wb)]
    ELSE [camera_wb |-> camera_wb, has_wb_gains |-> FALSE, wb_gains |-> <<>>]

---------------------------------------------------------------------------
(* iterative_white_balance, lines 49-109.                                  *)

Abs(x) == IF x < 0 THEN -x ELSE x

\* np.clip(image, 0, 1)
ClipImage(image) ==
    [p \in 1..Len(image) |-> [ch \in 1..3 |-> Clip(image[p][ch], 0, Scale)]]

\* line 62: result = image.copy() is a buffer of its own, so that the
\* assignments of lines 71-73 do not write the caller's image.
ResultSharesBuffer == FALSE

\* lines 64-67
InitialGains(initial_wb) ==
    IF initial_wb = <<>> THEN <<Scale, Scale, Scale>> ELSE initial_wb

\* A variant of lines 71-73 that multiplies the working copy instead of
\* the image passed in, so that the gains of the passes compound.
GainedFromResult(image, result, gains) ==
    [p \in 1..Len(result) |-> [ch \in 1..3 |-> Mul(result[p][ch], gains[ch])]]

\* lines 71-73: the gains applied to the image passed in, not to result
GainedImage(image, result, gains) ==
    [p \in 1..Len(image) |-> [ch \in 1..3 |-> Mul(image[p][ch], gains[ch])]]

\* line 76
Brightness(result) ==
    [p \in 1..Len(result) |-> (result[p][1] + result[p][2] + result[p][3]) \div 3]

\* 100 * np.percentile(a, q), a sorted: linear interpolation between the
\* two samples around position q / 100 * (n - 1).
Percentile100(sorted, q) ==
    LET k == q * (Len(sorted) - 1)
        i == k \div 100
        f == k % 100
    IN  IF f = 0 THEN 100 * sorted[i + 1]
        ELSE 100 * sorted[i + 1] + f * (sorted[i + 2] - sorted[i + 1])

\* lines 77-79: the pixels strictly between the 5th and the 95th percentile
InlierMask(brightness) ==
    LET sorted == SortSeq(brightness, LAMBDA a, b: a < b)
    IN  SelectSeq([p \in 1..Len(brightness) |-> p],
                  LAMBDA p: /\ 100 * brightness[p] > Percentile100(sorted, 5)
                            /\ 100 * brightness[p] < Percentile100(sorted, 95))

\* lines 84-86: the mean of one channel over the mask
MaskMean(result, mask, ch) ==
    SeqSum([k \in 1..Len(mask) |-> result[mask[k]][ch]]) \div Len(mask)

\* lines 91-93, damping = 0.5
Correction(gray, mean) == Scale + Mul(500000, Div(gray, mean) - Scale)

\* One pass of the loop body, lines 70-104: the result buffer, the gains
\* after the pass, and whether the loop is left by a break.
WBPass(image, result, gains) ==
    LET gained == GainedImage(image, result, gains)
        mask == InlierMask(Brightness(gained))
    IN  IF Len(mask) = 0
        THEN [result |-> gained, gains |-> gains, stop |-> TRUE]
        ELSE LET r_mean == MaskMean(gained, mask, 1)
                 g_mean == MaskMean(gained, mask, 2)
                 b_mean == MaskMean(gained, mask, 3)
                 gray == (r_mean + g_mean + b_mean) \div 3
                 r_correction == Correction(gray, r_mean)
                 g_correction == Correction(gray, g_mean)
                 b_correction == Correction(gray, b_mean)
                 delta == Max2(Abs(r_correction - Scale),
                               Max2(Abs(g_correction - Scale),
                                    Abs(b_correction - Scale)))
             IN  [result |-> gained,
                  gains |-> <<Mul(gains[1], r_correction),
                              Mul(gains[2], g_correction),
                              Mul(gains[3], b_correction)>>,
                  stop |-> delta < 10000]

\* The loop of line 69 from its pass number `iteration` on.
RECURSIVE WBLoop(_, _, _, _, _)
WBLoop(image, result, gains, iteration, max_iter) ==
    IF iteration >= max_iter THEN result
    ELSE LET pass == WBPass(image, result, gains)
             image1 == IF ResultSharesBuffer THEN pass.result ELSE image
         IN  IF pass.stop THEN pass.result
             ELSE WBLoop(image1, pass.result, pass.gains, iteration + 1, max_iter)

\* The function as a whole: the image it returns.
iterative_white_balance(image, initial_wb, max_iter) ==
    ClipImage(WBLoop(image, image, InitialGains(initial_wb), 0, max_iter))

---------------------------------------------------------------------------
(* SpecWB: load_dng_metadata on the coefficients of a file, then           *)
(* iterative_white_balance on an image, one pass of its loop a step.       *)

\* The most passes a call is given (--wb-iterations, default 2).
MaxIter == 3

\* camera_whitebalance: three or four positive coefficients; and a list
\* too short for line 38.
CameraWBs ==
    {<<2000000, 1000000, 1500000>>, <<1000000, 1000000, 1000000, 1000000>>,
     <<1800000, 900000, 1350000, 900000>>, <<2000000, 1000000>>}

\* Linear images: a gray one (every brightness equal: the mask is empty),
\* colour casts, a neutral one, and mixed scenes of three to five pixels.
WBImages ==
    {<<Gray18, Gray18, Gray18, Gray18>>,
     <<Black, Black, Black, White>>,
     <<Shadow, Warm, Cool, White>>,
     <<Black, Warm, Warm, Warm, White>>,
     <<Shadow, Cool, Warm>>,
     <<Shadow, Gray18, Gray50, White>>,
     <<Black, Shadow, Cool, Cool, White>>,
     <<Warm, Cool, <<300000, 400000, 200000>>, <<900000, 800000, 400000>>>>}

WBStart ==
    /\ w_camera_wb \in CameraWBs
    /\ w_initial_wb \in {"None", "wb_gains"}
    /\ w_max_iter \in 0..MaxIter
    /\ w_image \in WBImages
    /\ w_image0 = w_image
    /\ w_wb_gains = <<>>
    /\ w_result = <<>>
    /\ w_gains = <<>>
    /\ w_applied = <<>>
    /\ w_iteration = 0
    /\ w_pc = "load"

\* load_dng_metadata; the caller then reads metadata['wb_gains'] (lines 436,
\* 472), a KeyError when the key was not set.
LoadMetadata ==
    /\ w_pc = "load"
    /\ w_wb_gains' = load_dng_metadata(w_camera_wb).wb_gains
    /\ w_pc' = IF w_initial_wb = "wb_gains"
                  /\ ~load_dng_metadata(w_camera_wb).has_wb_gains
               THEN "KeyError" ELSE "call"
    /\ UNCHANGED <<w_camera_wb, w_initial_wb, w_max_iter, w_image, w_image0,
                   w_result, w_gains, w_iteration, w_applied>>
    /\ UNCHANGED <<toneVars, expVars, pipeVars, batchVars>>

\* lines 62-67
WBCall ==
    /\ w_pc = "call"
    /\ w_result' = w_image
    /\ w_gains' = InitialGains(IF w_initial_wb = "None" THEN <<>> ELSE w_wb_gains)
    /\ w_pc' = "loop"
    /\ UNCHANGED <<w_camera_wb, w_wb_gains, w_initial_wb, w_max_iter, w_image,
                   w_image0, w_iteration, w_applied>>
    /\ UNCHANGED <<toneVars, expVars, pipeVars, batchVars>>

\* One pass of the loop, lines 69-104.
WBIterate ==
    /\ w_pc = "loop"
    /\ w_iteration < w_max_iter
    /\ LET pass == WBPass(w_image, w_result, w_gains)
       IN  /\ w_result' = pass.result
           /\ w_image' = IF ResultSharesBuffer THEN pass.result ELSE w_image
           /\ w_gains' = pass.gains
           /\ w_pc' = IF pass.stop THEN "break" ELSE "loop"
    /\ w_applied' = w_gains
    /\ w_iteration' = w_iteration + 1
    /\ UNCHANGED <<w_camera_wb, w_wb_gains, w_initial_wb, w_max_iter, w_image0>>
    /\ UNCHANGED <<toneVars, expVars, pipeVars, batchVars>>

\* lines 106-109, after the last pass or a break
WBReturn ==
    /\ \/ w_pc = "break"
       \/ w_pc = "loop" /\ w_iteration >= w_max_iter
    /\ w_result' = ClipImage(w_result)
    /\ w_pc' = "returned"
    /\ UNCHANGED <<w_camera_wb, w_wb_gains, w_initial_wb, w_max_iter, w_image,
                   w_image0, w_gains, w_iteration, w_applied>>
    /\ UNCHANGED <<toneVars, expVars, pipeVars, batchVars>>

WBNext == LoadMetadata \/ WBCall \/ WBIterate \/ WBReturn

---------------------------------------------------------------------------
(* unsharp_mask, lines 376-392.                                            *)

\* scipy's gaussian_filter at sigma = 1.0: the weights exp(-k^2 / 2) at the
\* distances k = 0..4 (truncate = 4.0), normalised and rounded so that the
\* nine of them sum to 1.
GaussWeight(k) == <<398944, 241971, 53991, 4432, 134>>[k + 1]

\* scipy's default boundary mode 'reflect' (d c b a | a b c d | d c b a):
\* the sample that stands at position i of a row of n samples.
Reflect(i, n) ==
    LET m == (i - 1) % (2 * n)
    IN  IF m < n THEN m + 1 ELSE 2 * n - m

\* line 384 on an image of one row: each channel blurred along the row
gaussian_filter(image, ch, p) ==
    LET n == Len(image)
        tap(k) == image[Reflect(p + k, n)][ch]
    IN  Mul(GaussWeight(0), tap(0))
        + Mul(GaussWeight(1), tap(-1) + tap(1))
        + Mul(GaussWeight(2), tap(-2) + tap(2))
        + Mul(GaussWeight(3), tap(-3) + tap(3))
        + Mul(GaussWeight(4), tap(-4) + tap(4))

\* lines 382-392
unsharp_mask(image, strength) ==
    [p \in 1..Len(image) |->
        [ch \in 1..3 |->
            LET blurred == gaussian_filter(image, ch, p)
                high_freq == image[p][ch] - blurred
                sharpened == image[p][ch] + Mul(strength, high_freq)
            IN  Clip(sharpened, 0, Scale)]]

---------------------------------------------------------------------------
(* convert_dng_to_srgb, lines 395-499.                                     *)

\* line 482: np.power(rgb_mapped, 1.0 / 2.2)
GammaEncode(image) ==
    [p \in 1..Len(image) |-> [ch \in 1..3 |-> Pow(image[p][ch], Div(Scale, 2200000))]]

\* line 493 on one sample: astype(np.uint8) drops the fraction
Quantize(x) == (Clip(x, 0, Scale) * 255) \div Scale

\* line 493
To8Bit(image) ==
    [p \in 1..Len(image) |-> [ch \in 1..3 |-> Quantize(image[p][ch])]]

\* A variant of the function body with the exposure analysis moved behind
\* the white balance.
StepOrderExposureAfterWB ==
    <<"read", "decode", "white_balance", "exposure", "tone_mapping",
      "gamma", "sharpen", "save">>

\* The numbered steps [1/8] .. [8/8] in the order of the function body.
StepOrder ==
    <<"read", "exposure", "decode", "white_balance", "tone_mapping",
      "gamma", "sharpen", "save">>

\* The step that follows `step` in the function body.
StepAfter(step) ==
    LET i == CHOOSE k \in 1..Len(StepOrder) : StepOrder[k] = step
    IN  IF i = Len(StepOrder) THEN "done" ELSE StepOrder[i + 1]

\* The exception convert_dng_to_srgb raises over its steps up to the tone
\* mapping when the decoder reads the file, "none" when it raises none.
ProcessingError(r, c) ==
    IF ~load_dng_metadata(r.camera_wb).has_wb_gains THEN "KeyError"
    ELSE IF /\ c.auto_exposure
            /\ ~c.exposure.known
            /\ BaseExposureRaises(ReadExif(r.tags)) THEN "ZeroDivisionError"
    ELSE IF c.tone_mapping \notin KnownMethods THEN "ValueError"
    ELSE "none"

---------------------------------------------------------------------------
(* Spec: convert_dng_to_srgb on one file, one numbered step a step.        *)

PipeTagSets ==
    {[iso_exif |-> i, iso_image |-> NoTag, exposure_time |-> NoTag,
      fnumber |-> NoTag, exposure_bias |-> NoTag] : i \in {NoTag, Tag(0, 1), Tag(400, 1)}}

PipeImages ==
    {<<Gray18, Gray18, Gray18, Gray18>>,
     <<Shadow, Warm, Cool, White>>,
     <<Black, Gray50, White>>}

Raws ==
    [camera_wb : {<<2000000, 1000000, 1500000, 1000000>>, <<2000000, 1000000>>},
     tags : PipeTagSets, image : PipeImages]

\* The keyword arguments of a call.  An argument the call does not read
\* (the passes without iterative_wb, the strength without sharpen,
\* auto_exposure beside a manual exposure) is left at its default.
Cfgs ==
    {c \in [iterative_wb : BOOLEAN, wb_iterations : {0, 2},
            tone_mapping : KnownMethods \cup {"filmic"},
            auto_exposure : BOOLEAN, exposure : {None, Some(5000000)},
            target_brightness : {180000},
            sharpen : BOOLEAN, sharpen_strength : {0, 1200000}] :
        /\ ~c.iterative_wb => c.wb_iterations = 2
        /\ ~c.sharpen => c.sharpen_strength = 1200000
        /\ c.exposure.known => c.auto_exposure}

PipeStart ==
    /\ raw \in Raws
    /\ cfg \in Cfgs
    /\ pc = "read"
    /\ error = "none"
    /\ stages = <<>>
    /\ metadata = load_dng_metadata(<<>>)
    /\ exposure = 0
    /\ rgb_float = <<>>
    /\ rgb_mapped = <<>>
    /\ rgb_gamma = <<>>
    /\ rgb_sharp = <<>>
    /\ rgb_8bit = <<>>

\* [1/8], lines 429-436: rawpy.imread, load_dng_metadata, and the prints
\* of the metadata, metadata['wb_gains'] among them.
ReadDng ==
    /\ pc = "read"
    /\ \E readable \in BOOLEAN :
        IF ~readable
        THEN /\ pc' = "raised" /\ error' = "DecodeError"
             /\ UNCHANGED metadata
        ELSE /\ metadata' = load_dng_metadata(raw.camera_wb)
             /\ IF metadata'.has_wb_gains
                THEN pc' = StepAfter("read") /\ UNCHANGED error
                ELSE pc' = "raised" /\ error' = "KeyError"
    /\ UNCHANGED <<raw, cfg, stages, exposure, rgb_float, rgb_mapped,
                   rgb_gamma, rgb_sharp, rgb_8bit>>
    /\ UNCHANGED <<toneVars, expVars, wbVars, batchVars>>

\* [2/8], lines 438-446
DetermineExposure ==
    /\ pc = "exposure"
    /\ IF cfg.auto_exposure /\ ~cfg.exposure.known
       THEN IF BaseExposureRaises(ReadExif(raw.tags))
            THEN /\ pc' = "raised" /\ error' = "ZeroDivisionError"
                 /\ UNCHANGED <<exposure, stages>>
            ELSE /\ exposure' = calculate_auto_exposure(raw.tags, raw.image,
                                                        cfg.target_brightness)
                 /\ stages' = Append(stages, "ExposureDetermined")
                 /\ pc' = StepAfter("exposure") /\ UNCHANGED error
       ELSE /\ exposure' = IF cfg.exposure.known THEN cfg.exposure.v ELSE Scale
            /\ stages' = Append(stages, "ExposureDetermined")
            /\ pc' = StepAfter("exposure") /\ UNCHANGED error
    /\ UNCHANGED <<raw, cfg, metadata, rgb_float, rgb_mapped, rgb_gamma,
                   rgb_sharp, rgb_8bit>>
    /\ UNCHANGED <<toneVars, expVars, wbVars, batchVars>>

\* [3/8], lines 448-467: raw.postprocess, then the samples as floats
Decode ==
    /\ pc = "decode"
    /\ rgb_float' = raw.image
    /\ stages' = Append(stages, "Decoded")
    /\ pc' = StepAfter("decode")
    /\ UNCHANGED <<raw, cfg, error, metadata, exposure, rgb_mapped, rgb_gamma,
                   rgb_sharp, rgb_8bit>>
    /\ UNCHANGED <<toneVars, expVars, wbVars, batchVars>>

\* [4/8], lines 469-474
WhiteBalance ==
    /\ pc = "white_balance"
    /\ IF cfg.iterative_wb
       THEN /\ rgb_float' = iterative_white_balance(rgb_float, metadata.wb_gains,
                                                    cfg.wb_iterations)
            /\ stages' = Append(stages, "WhiteBalanced")
       ELSE UNCHANGED <<rgb_float, stages>>
    /\ pc' = StepAfter("white_balance")
    /\ UNCHANGED <<raw, cfg, error, metadata, exposure, rgb_mapped, rgb_gamma,
                   rgb_sharp, rgb_8bit>>
    /\ UNCHANGED <<toneVars, expVars, wbVars, batchVars>>

\* [5/8], lines 476-478
ToneMapping ==
    /\ pc = "tone_mapping"
    /\ IF cfg.tone_mapping \in KnownMethods
       THEN /\ rgb_mapped' = apply_tone_mapping_improved(rgb_float, cfg.tone_mapping,
                                                         exposure)
            /\ stages' = Append(stages, "ToneMapped")
            /\ pc' = StepAfter("tone_mapping") /\ UNCHANGED error
       ELSE /\ pc' = "raised" /\ error' = "ValueError"
            /\ UNCHANGED <<rgb_mapped, stages>>
    /\ UNCHANGED <<raw, cfg, metadata, exposure, rgb_float, rgb_gamma,
                   rgb_sharp, rgb_8bit>>
    /\ UNCHANGED <<toneVars, expVars, wbVars, batchVars>>

\* [6/8], lines 480-482
Gamma ==
    /\ pc = "gamma"
    /\ rgb_gamma' = GammaEncode(rgb_mapped)
    /\ stages' = Append(stages, "GammaEncoded")
    /\ pc' = StepAfter("gamma")
    /\ UNCHANGED <<raw, cfg, error, metadata, exposure, rgb_float, rgb_mapped,
                   rgb_sharp, rgb_8bit>>
    /\ UNCHANGED <<toneVars, expVars, wbVars, batchVars>>

\* [7/8], lines 484-489.  rgb_sharp is the value the name rgb_gamma holds
\* after the step; rgb_gamma keeps the value of line 482.
Sharpen ==
    /\ pc = "sharpen"
    /\ IF cfg.sharpen
       THEN /\ rgb_sharp' = unsharp_mask(rgb_gamma, cfg.sharpen_strength)
            /\ stages' = Append(stages, "Sharpened")
       ELSE /\ rgb_sharp' = rgb_gamma
            /\ UNCHANGED stages
    /\ pc' = StepAfter("sharpen")
    /\ UNCHANGED <<raw, cfg, error, metadata, exposure, rgb_float, rgb_mapped,
                   rgb_gamma, rgb_8bit>>
    /\ UNCHANGED <<toneVars, expVars, wbVars, batchVars>>

\* [8/8], lines 491-495: the 8-bit buffer, then imageio.imwrite
Save ==
    /\ pc = "save"
    /\ rgb_8bit' = To8Bit(rgb_sharp)
    /\ stages' = Append(stages, "Quantized")
    /\ \E written \in BOOLEAN :
        IF written
        THEN pc' = StepAfter("save") /\ UNCHANGED error
        ELSE pc' = "raised" /\ error' = "EncodeError"
    /\ UNCHANGED <<raw, cfg, metadata, exposure, rgb_float, rgb_mapped,
                   rgb_gamma, rgb_sharp>>
    /\ UNCHANGED <<toneVars, expVars, wbVars, batchVars>>

PipeNext ==
    \/ ReadDng \/ DetermineExposure \/ Decode \/ WhiteBalance
    \/ ToneMapping \/ Gamma \/ Sharpen \/ Save

---------------------------------------------------------------------------
(* batch_convert, lines 502-524.                                           *)

\* How one call of convert_dng_to_srgb ends: "ok", or the exception it
\* raises.  The decoder and the encoder fail or not as they choose.
ConvertOutcome(r, c, readable, written) ==
    IF ~readable THEN "DecodeError"
    ELSE IF ProcessingError(r, c) # "none" THEN ProcessingError(r, c)
    ELSE IF ~written THEN "EncodeError"
    ELSE "ok"

\* A variant of line 521 that catches the decoder's and the encoder's
\* exceptions only.
CaughtCodecOnly(exception) ==
    exception \in {"DecodeError", "EncodeError"}

\* line 521: except Exception catches every exception a conversion raises
Caught(exception) ==
    exception \in {"DecodeError", "EncodeError", "KeyError", "ValueError",
                   "ZeroDivisionError"}

\* Path.glob('*.' + ext): the entries of that suffix, in directory order;
\* the match is case-sensitive.
Glob(dir, ext) == SelectSeq(dir, LAMBDA f: f.ext = ext)

\* line 510
ListDngFiles(dir) == Glob(dir, "dng") \o Glob(dir, "DNG")

---------------------------------------------------------------------------
(* SpecBatch: batch_convert on one directory, one file of the loop a step. *)

\* The most entries a directory holds.
MaxFiles == 3

\* What a file holds: a raw the pipeline converts, one whose camera gives
\* two white-balance coefficients, one whose ISO tag is 0.
RawOfKind(kind) ==
    [camera_wb |-> IF kind = "short_wb" THEN <<2000000, 1000000>>
                   ELSE <<2000000, 1000000, 1500000, 1000000>>,
     tags |-> [iso_exif |-> IF kind = "iso0" THEN Tag(0, 1) ELSE Tag(100, 1),
               iso_image |-> NoTag, exposure_time |-> NoTag,
               fnumber |-> NoTag, exposure_bias |-> NoTag],
     image |-> <<Shadow, Warm, Cool, White>>]

\* Directories: entry i is named i; its suffix and what it holds vary.
Directories ==
    UNION {[1..n -> [ext : {"dng", "DNG", "jpg"},
                     kind : {"good", "short_wb", "iso0"}]] : n \in 0..MaxFiles}

NamedEntries(d) ==
    [i \in 1..Len(d) |-> [name |-> i, ext |-> d[i].ext, kind |-> d[i].kind]]

\* The keyword arguments of the batch: the defaults, and an unknown method.
BatchKwargs ==
    [iterative_wb : {FALSE}, wb_iterations : {2},
     tone_mapping : {"aces", "filmic"},
     auto_exposure : {TRUE}, exposure : {None},
     target_brightness : {180000},
     sharpen : {FALSE}, sharpen_strength : {1200000}]

BatchStart ==
    /\ \E d \in Directories : b_dir = NamedEntries(d)
    /\ b_kwargs \in BatchKwargs
    /\ dng_files = <<>>
    /\ b_i = 1
    /\ b_attempted = <<>>
    /\ b_pc = "list"

\* lines 506-513
BatchList ==
    /\ b_pc = "list"
    /\ dng_files' = ListDngFiles(b_dir)
    /\ b_pc' = "loop"
    /\ UNCHANGED <<b_dir, b_kwargs, b_i, b_attempted>>
    /\ UNCHANGED <<toneVars, expVars, wbVars, pipeVars>>

\* lines 515-524: one file of the loop
BatchAttempt ==
    /\ b_pc = "loop"
    /\ b_i <= Len(dng_files)
    /\ \E readable \in BOOLEAN, written \in BOOLEAN :
        LET outcome == ConvertOutcome(RawOfKind(dng_files[b_i].kind), b_kwargs,
                                      readable, written)
        IN  /\ b_attempted' = Append(b_attempted,
                                     [name |-> dng_files[b_i].name, outcome |-> outcome])
            /\ b_pc' = IF outcome = "ok" \/ Caught(outcome) THEN "loop" ELSE "aborted"
    /\ b_i' = b_i + 1
    /\ UNCHANGED <<b_dir, b_kwargs, dng_files>>
    /\ UNCHANGED <<toneVars, expVars, wbVars, pipeVars>>

\* The loop ends after the last file.
BatchEnd ==
    /\ b_pc = "loop"
    /\ b_i > Len(dng_files)
    /\ b_pc' = "done"
    /\ UNCHANGED <<b_dir, b_kwargs, dng_files, b_i, b_attempted>>
    /\ UNCHANGED <<toneVars, expVars, wbVars, pipeVars>>

BatchNext == BatchList \/ BatchAttempt \/ BatchEnd

---------------------------------------------------------------------------
(* The specifications.  Each lets one part run and holds the others still. *)

ToneIdle ==
    /\ t_method = "aces" /\ t_x = 0 /\ t_exposure = Scale /\ t_out = 0
    /\ t_pc = "idle"

ExpIdle ==
    /\ e_tags = [iso_exif |-> NoTag, iso_image |-> NoTag, exposure_time |-> NoTag,
                 fnumber |-> NoTag, exposure_bias |-> NoTag]
    /\ e_thumb = <<>> /\ e_target = 180000 /\ e_base = 0 /\ e_final = 0
    /\ e_pc = "idle"

WBIdle ==
    /\ w_camera_wb = <<>> /\ w_wb_gains = <<>> /\ w_initial_wb = "None"
    /\ w_max_iter = 0 /\ w_image = <<>> /\ w_image0 = <<>> /\ w_result = <<>>
    /\ w_gains = <<>> /\ w_iteration = 0 /\ w_applied = <<>>
    /\ w_pc = "idle"

PipeIdle ==
    /\ raw = [camera_wb |-> <<>>, tags |-> e_tags, image |-> <<>>]
    /\ cfg = CHOOSE c \in BatchKwargs : c.tone_mapping = "aces"
    /\ pc = "idle" /\ error = "none" /\ stages = <<>>
    /\ metadata = load_dng_metadata(<<>>)
    /\ exposure = 0 /\ rgb_float = <<>> /\ rgb_mapped = <<>>
    /\ rgb_gamma = <<>> /\ rgb_sharp = <<>> /\ rgb_8bit = <<>>

BatchIdle ==
    /\ b_dir = <<>> /\ b_kwargs = CHOOSE c \in BatchKwargs : c.tone_mapping = "aces"
    /\ dng_files = <<>> /\ b_i = 1 /\ b_attempted = <<>>
    /\ b_pc = "idle"

\* convert_dng_to_srgb on one file
Init == ToneIdle /\ ExpIdle /\ WBIdle /\ PipeStart /\ BatchIdle
Next == PipeNext
Spec == Init /\ [][Next]_vars

\* apply_tone_mapping_improved on one sample
InitTone == ToneStart /\ ExpIdle /\ WBIdle /\ PipeIdle /\ BatchIdle
SpecTone == InitTone /\ [][ToneNext]_vars

\* calculate_auto_exposure on one file's tags and preview
InitExposure == ToneIdle /\ ExpStart /\ WBIdle /\ PipeIdle /\ BatchIdle
SpecExposure == InitExposure /\ [][ExpNext]_vars

\* load_dng_metadata and iterative_white_balance
InitWB == ToneIdle /\ ExpIdle /\ WBStart /\ PipeIdle /\ BatchIdle
SpecWB == InitWB /\ [][WBNext]_vars

\* batch_convert on one directory
InitBatch == ToneIdle /\ ExpIdle /\ WBIdle /\ PipeIdle /\ BatchStart
SpecBatch == InitBatch /\ [][BatchNext]_vars

---------------------------------------------------------------------------
(* Properties.                                                             *)

\* C1: for every tone-map method, every non-negative linear sample and
\* every exposure factor, the value apply_tone_mapping_improved returns
\* lies in [0, 1].
C1_ToneMapWithinUnit ==
    t_pc = "returned" => 0 <= t_out /\ t_out <= Scale

\* C2: for any ISO (present or absent), EV bias, target brightness and
\* preview histogram, calculate_auto_exposure returns a value, and the
\* value lies in [0.3, 5.0].
C2_ExposureReturnedAndClamped ==
    e_pc \in {"returned", "ZeroDivisionError"} =>
        /\ e_pc = "returned"
        /\ 300000 <= e_final /\ e_final <= 5000000

\* C3, as claimed: every gain triple the program produces or holds has
\* green gain exactly 1.0: the static gains of load_dng_metadata and the
\* running gains of iterative_white_balance after every iteration.
C3_GreenGainAlwaysOne ==
    /\ w_wb_gains # <<>> => w_wb_gains[2] = Scale
    /\ w_initial_wb = "wb_gains" /\ w_gains # <<>> => w_gains[2] = Scale

\* C3, amended: the static gains of any coefficients of length >= 3 have
\* green gain exactly 1.0, and iterative_white_balance started from them
\* (or from no gains) holds green gain 1.0 up to and through the gains it
\* applies in its first iteration; the corrections of that iteration and
\* of the later ones multiply the green gain like the other two.
C3_GreenGainOneUntilCorrected ==
    /\ w_pc # "load" /\ Len(w_camera_wb) >= 3 =>
            /\ w_wb_gains # <<>>
            /\ w_wb_gains[2] = Scale
    /\ w_gains # <<>> /\ w_iteration = 0 => w_gains[2] = Scale
    /\ w_iteration = 1 => w_applied[2] = Scale

C3_Witness ==
    /\ w_pc = "returned"
    /\ w_initial_wb = "wb_gains"
    /\ w_wb_gains # <<>> /\ w_wb_gains[1] # Scale /\ w_wb_gains[2] = Scale
    /\ w_iteration >= 2
    /\ w_gains[2] # Scale

\* C4: when the camera supplies fewer than 3 white-balance coefficients,
\* convert_dng_to_srgb falls back to the identity gains [1, 1, 1] and goes
\* on to produce an output image instead of aborting.
C4_ShortCoefficientsFallBack ==
    Len(raw.camera_wb) < 3 /\ pc \notin {"idle", "read"} /\ error # "DecodeError" =>
        /\ error # "KeyError"
        /\ metadata.has_wb_gains
        /\ metadata.wb_gains = <<Scale, Scale, Scale>>

\* The stages of `stages` follow one another as in `order`.
StagesFollow(order) ==
    \A i, j \in 1..Len(stages) :
        i < j => \E a, b \in 1..Len(order) :
                    a < b /\ order[a] = stages[i] /\ order[b] = stages[j]

\* C5, as claimed: the stages occur in the order Decoded, WhiteBalanced,
\* ExposureDetermined, ToneMapped, GammaEncoded, optionally Sharpened,
\* Quantized; the exposure factor is determined only after the linear
\* buffer has been decoded and white-balanced.
C5_StagesInClaimedOrder ==
    StagesFollow(<<"Decoded", "WhiteBalanced", "ExposureDetermined", "ToneMapped",
                   "GammaEncoded", "Sharpened", "Quantized">>)

\* C5, amended: the stages occur in the order ExposureDetermined, Decoded,
\* WhiteBalanced (only with iterative_wb), ToneMapped, GammaEncoded,
\* Sharpened (only with sharpen), Quantized, none before its predecessor
\* and none twice: the exposure factor is determined before the linear
\* buffer is decoded.
C5_StagesInCodeOrder ==
    /\ StagesFollow(<<"ExposureDetermined", "Decoded", "WhiteBalanced", "ToneMapped",
                      "GammaEncoded", "Sharpened", "Quantized">>)
    /\ stages # <<>> => stages[1] = "ExposureDetermined"
    /\ pc = "done" =>
        {stages[i] : i \in 1..Len(stages)} =
            {"ExposureDetermined", "Decoded", "ToneMapped", "GammaEncoded", "Quantized"}
            \cup (IF cfg.iterative_wb THEN {"WhiteBalanced"} ELSE {})
            \cup (IF cfg.sharpen THEN {"Sharpened"} ELSE {})

C5_Witness ==
    /\ pc = "done"
    /\ stages = <<"ExposureDetermined", "Decoded", "WhiteBalanced", "ToneMapped",
                  "GammaEncoded", "Sharpened", "Quantized">>

\* The names of a sequence of files or of attempts.
Names(s) == [k \in 1..Len(s) |-> s[k].name]

\* C6: a failure on one image does not abort the batch: every DNG file
\* found in the input directory is attempted exactly once, in list order,
\* whichever earlier files failed, and the loop ends after the last file.
C6_EveryFileAttemptedOnce ==
    /\ b_pc # "aborted"
    /\ b_pc \in {"loop", "done"} =>
        /\ \A i \in 1..Len(b_dir) :
              b_dir[i].ext \in {"dng", "DNG"} =>
                  Cardinality({k \in 1..Len(dng_files) : dng_files[k].name = i}) = 1
        /\ b_i <= Len(dng_files) + 1
        /\ Names(b_attempted) = SubSeq(Names(dng_files), 1, b_i - 1)
    /\ b_pc = "done" => Names(b_attempted) = Names(dng_files)
    /\ b_pc \in {"list", "loop"} => ENABLED BatchNext

C6_Witness ==
    /\ b_pc = "done"
    /\ Len(b_attempted) = 3
    /\ b_attempted[1].outcome = "KeyError"
    /\ b_attempted[2].outcome = "DecodeError"
    /\ b_attempted[3].outcome = "ok"

\* round(v * 255) for a fixed-point v, halves rounded up
Round255(v) == (2 * 255 * v + Scale) \div (2 * Scale)

\* C7: the terminal 8-bit value of every channel sample equals
\* round(clamp(x, 0, 1) * 255), x the gamma-encoded (and optionally
\* sharpened) value.
C7_QuantizedIsRounded ==
    rgb_8bit # <<>> =>
        \A p \in 1..Len(rgb_8bit) : \A ch \in 1..3 :
            rgb_8bit[p][ch] = Round255(Clip(rgb_sharp[p][ch], 0, Scale))

\* C8: unsharp_mask with strength = 0 is the identity, also on the images
\* the pipeline passes to it: the gamma-encoded output of any method.
C8_ZeroStrengthIsIdentity ==
    pc \in {"save", "done"} /\ cfg.sharpen /\ cfg.sharpen_strength = 0 =>
        rgb_sharp = rgb_gamma

\* The base exposure C9 states: 100 / ISO when an ISO tag is present (and
\* the quotient exists), times 2^evBias when an EV bias tag is present.
ClaimedBaseExposure(tags) ==
    Mul(IF IsoTag(tags).present /\ IsoTag(tags).num # 0
        THEN (100 * Scale) \div IsoTag(tags).num ELSE Scale,
        IF tags.exposure_bias.present
        THEN Pow(2 * Scale, RatioValue(tags.exposure_bias)) ELSE Scale)

\* C9: whichever capture parameters are absent, calculate_auto_exposure
\* does not raise, and base exposure = (100 / ISO if ISO is present, else
\* 1.0) * (2^evBias if an EV bias is present, else 1).
C9_AbsentFieldsOnlyDisableOwn ==
    e_pc \in {"returned", "ZeroDivisionError"} =>
        /\ e_pc = "returned"
        /\ e_base = ClaimedBaseExposure(e_tags)

\* original * g, sample by sample
ScaledBy(image, g) ==
    [p \in 1..Len(image) |-> [ch \in 1..3 |-> Mul(image[p][ch], g[ch])]]

\* C10: iterative_white_balance never mutates its input image, and the
\* image it returns is clamp(original * g, 0, 1), g the gains held at the
\* start of the last executed iteration: with max_iter = 1 the initial
\* gains, with max_iter = 0 none (clamp(original, 0, 1)).
C10_ReturnsOriginalTimesStartGains ==
    /\ w_image = w_image0
    /\ w_pc = "returned" =>
        /\ w_iteration = 0 <=> w_max_iter = 0
        /\ w_max_iter = 0 => w_result = ClipImage(w_image0)
        /\ w_max_iter = 1 =>
              w_result = ClipImage(ScaledBy(w_image0,
                            IF w_initial_wb = "None" THEN <<Scale, Scale, Scale>>
                            ELSE w_wb_gains))
        /\ w_iteration >= 1 => w_result = ClipImage(ScaledBy(w_image0, w_applied))

C10_Witness ==
    /\ w_pc = "returned"
    /\ w_iteration >= 2
    /\ w_gains # w_applied
    /\ w_result # ClipImage(ScaledBy(w_image0, w_gains))
    /\ w_result = ClipImage(ScaledBy(w_image0, w_applied))

---------------------------------------------------------------------------
(* Cross-checks of the model.                                              *)

\* The steps of Spec raise what ProcessingError says the function raises.
PipeErrorsAgree ==
    /\ pc = "raised" /\ error \notin {"DecodeError", "EncodeError"} =>
            error = ProcessingError(raw, cfg)
    /\ pc = "done" => ProcessingError(raw, cfg) = "none"

\* Every present tag is text the try block parses, and the ISO is not 0.
WellFormed(tags) ==
    /\ ~RatioRaises(tags.exposure_time)
    /\ ~RatioRaises(tags.fnumber)
    /\ ~RatioRaises(tags.exposure_bias)
    /\ IsoTag(tags).present => IsoTag(tags).num # 0

\* On well-formed tags the statement of C9 holds.
WellFormedBaseExposure ==
    e_pc \in {"returned", "ZeroDivisionError"} /\ WellFormed(e_tags) =>
        /\ e_pc = "returned"
        /\ e_base = ClaimedBaseExposure(e_tags)

====
